---- MODULE Spec2Model ----
(***************************************************************************)
(* The MyApp controller of src/src/main.rs: the reconcile function, the    *)
(* finalizer helpers, the child builders and the error policy, run against *)
(* an object store with the Kubernetes API semantics (get, create, merge   *)
(* patch, delete) and a reflector cache that lags behind the store.        *)
(*                                                                         *)
(* reconcile is an async function: every `.await` on a store call is a     *)
(* point where the rest of the cluster acts, so each store call is one     *)
(* action and the local computation before it belongs to that action.      *)
(***************************************************************************)
EXTENDS Integers, Sequences, FiniteSets, TLC

VARIABLES
    store,      \* MyApp objects held by the API server: name -> Option<MyApp>
    children,   \* Deployments and Services held by the API server
    cache,      \* the controller's reflector cache: name -> Option<MyApp>
    pending,    \* a watch event for the object waits in the controller's queue
    directive,  \* the Action the last invocation for the object ended with
    pc,         \* position of the in-flight reconcile of the object
    snap,       \* the Arc<MyApp> the in-flight reconcile was called with
    calls,      \* store calls the in-flight reconcile issued, with their results
    result,     \* Result<Action, ReconcileError> of the last reconcile
    errors,     \* the increments of the error counter during the invocation
    running,    \* the stream of Controller::run is still being polled
    events,     \* spec updates, store failures and other actors' changes so far
    created,    \* names a user has created an object under
    settled,    \* set while nothing but the controller has touched the object
                \* since reconcile was called with it as stored; once an Active
                \* reconcile has succeeded, the children and finalizers it left
    request,    \* the AdmissionReview a webhook of the webhook server is handed
    response,   \* the AdmissionResponse the webhook answered it with
    stale,      \* an earlier snapshot of the object that may be delivered again
    metrics     \* what the in-flight reconcile did to the active-reconciles gauge
                \* and to the reconcile counter since it started

vars == <<store, children, cache, pending, directive, pc, snap, calls, result,
          errors, running, events, created, settled, request, response, stale,
          metrics>>

\* the state of the webhook server
adm == <<request, response>>

----------------------------------------------------------------------------
(* Bounds of the model *)

\* What may happen to the objects besides their creation, their deletion and
\* the controller's own steps: spec updates, failing store calls, and other
\* actors' changes of children and finalizers, counted together.
MaxEvents == 2

(* Program constants *)

\* upper end of the replicas range
MaxReplicas == 100
\* requeue delays, in seconds
RequeueFinalizer == 1
RequeueResync == 300
RequeueError == 60
\* port of the Service
ServicePortNumber == 80

FINALIZER == "myapps.example.com/finalizer"
OtherFinalizer == "other.example.com/finalizer"
ControllerName == "myapp-controller"

Names == {"a", "b"}
Kinds == {"deployment", "service"}

\* Option<T> as a sequence of length at most one
None == <<>>
Some(x) == <<x>>
IsSome(opt) == opt # <<>>
Unwrap(opt) == opt[1]

\* Vec::contains
Contains(seq, x) == \E i \in 1..Len(seq) : seq[i] = x
\* Vec::retain(|f| f != x)
RECURSIVE Retain(_, _)
Retain(seq, x) ==
    IF seq = <<>> THEN <<>>
    ELSE IF Head(seq) = x THEN Retain(Tail(seq), x)
         ELSE <<Head(seq)>> \o Retain(Tail(seq), x)
Count(seq, x) == Cardinality({i \in 1..Len(seq) : seq[i] = x})

\* The MyAppSpec values users write.  Admission can be bypassed or absent,
\* so specs that fail validation reach the store too.
EnvA == {<<"MODE", "prod">>}
SpecDemo == [replicas |-> 3, image |-> "nginx:1.25", envVars |-> EnvA]
SpecScaled == [replicas |-> 5, image |-> "nginx:1.26", envVars |-> {}]
SpecNoReplicas == [replicas |-> 0, image |-> "nginx:1.25", envVars |-> {}]
SpecNoImage == [replicas |-> 1, image |-> "", envVars |-> {}]
Specs == {SpecDemo, SpecScaled, SpecNoReplicas, SpecNoImage}

UidOf(name) == <<"uid", name>>
\* the namespace the users create their objects in
Namespace == "ns1"

\* A MyApp as the store creates it
NewMyApp(name, spec) ==
    [name |-> name, namespace |-> Namespace, uid |-> UidOf(name),
     generation |-> 1, resourceVersion |-> 1,
     deletionTimestamp |-> FALSE, finalizers |-> <<>>, spec |-> spec,
     status |-> None]

----------------------------------------------------------------------------
(* Pure functions of main.rs *)

\* validate with the upper end of the range left out
validate_exclusive(myapp) ==
    IF myapp.spec.replicas < 1 \/ myapp.spec.replicas >= MaxReplicas
    THEN "replicas must be between 1 and 100"
    ELSE IF myapp.spec.image = ""
    THEN "image cannot be empty"
    ELSE "Ok"

\* MyApp::validate: Ok, or the reason of the rejection
validate(myapp) ==
    IF myapp.spec.replicas < 1 \/ myapp.spec.replicas > MaxReplicas
    THEN "replicas must be between 1 and 100"
    ELSE IF myapp.spec.image = ""
    THEN "image cannot be empty"
    ELSE "Ok"

\* MyApp::needs_reconciliation
needs_reconciliation(myapp) ==
    IF IsSome(myapp.status)
    THEN Unwrap(myapp.status).observedGeneration # myapp.generation
    ELSE TRUE

\* add_finalizer without its contains check
add_finalizer_patch_unchecked(myapp) ==
    Some([finalizers |-> Append(myapp.finalizers, FINALIZER)])

\* the finalizers add_finalizer puts in its merge patch; None: no patch
add_finalizer_patch(myapp) ==
    IF ~Contains(myapp.finalizers, FINALIZER)
    THEN Some([finalizers |-> Append(myapp.finalizers, FINALIZER)])
    ELSE None

\* remove_finalizer without its retain
remove_finalizer_patch_kept(myapp) == [finalizers |-> myapp.finalizers]

\* the finalizers remove_finalizer puts in its merge patch
remove_finalizer_patch(myapp) ==
    [finalizers |-> Retain(myapp.finalizers, FINALIZER)]

\* an owner reference that does not say controller
create_owner_reference_plain(myapp) ==
    [apiVersion |-> "example.com/v1", kind |-> "MyApp", name |-> myapp.name,
     uid |-> myapp.uid, controller |-> FALSE, blockOwnerDeletion |-> TRUE]

create_owner_reference(myapp) ==
    [apiVersion |-> "example.com/v1", kind |-> "MyApp", name |-> myapp.name,
     uid |-> myapp.uid, controller |-> TRUE, blockOwnerDeletion |-> TRUE]

\* the Deployment create_deployment posts
create_deployment(myapp) ==
    LET labels == {<<"app", myapp.name>>, <<"managed-by", ControllerName>>}
    IN [name |-> <<myapp.name, "deployment">>,
        namespace |-> myapp.namespace,
        labels |-> labels,
        ownerReferences |-> <<create_owner_reference(myapp)>>,
        replicas |-> myapp.spec.replicas,
        selector |-> labels,
        templateLabels |-> labels,
        image |-> myapp.spec.image,
        env |-> myapp.spec.envVars]

\* the Service create_service posts
create_service(myapp) ==
    LET labels == {<<"app", myapp.name>>}
    IN [name |-> <<myapp.name, "service">>,
        namespace |-> myapp.namespace,
        labels |-> labels,
        ownerReferences |-> <<create_owner_reference(myapp)>>,
        selector |-> labels,
        port |-> ServicePortNumber,
        targetPort |-> ServicePortNumber]

build_child(kind, myapp) ==
    IF kind = "deployment" THEN create_deployment(myapp) ELSE create_service(myapp)

\* a status that says Pending
new_status_pending(myapp) ==
    [state |-> "Pending",
     observedGeneration |-> myapp.generation,
     conditions |-> <<[type |-> "Ready", status |-> "True",
                       reason |-> "ReconcileSuccess"]>>]

\* the MyAppStatus reconcile writes (timestamps left out)
new_status(myapp) ==
    [state |-> "Running",
     observedGeneration |-> myapp.generation,
     conditions |-> <<[type |-> "Ready", status |-> "True",
                       reason |-> "ReconcileSuccess"]>>]

\* Action::await_change() and Action::requeue(duration)
AwaitChange == [requeue |-> -1]
Requeue(secs) == [requeue |-> secs]

\* Result<Action, ReconcileError>
Ok(action) == [kind |-> "Ok", action |-> action]
Err(error) == [kind |-> error, action |-> AwaitChange]
NoResult == [kind |-> "none", action |-> AwaitChange]

\* an error policy that counts every error as a store error
error_type_kube(error) == "kube_error"

\* the label error_policy counts the error under
error_type(error) ==
    CASE error = "KubeError" -> "kube_error"
      [] error = "ValidationError" -> "validation_error"
      [] error = "FinalizerError" -> "finalizer_error"

\* an error policy that waits for the next event
error_policy_await(error) == AwaitChange

\* an error policy that requeues store and finalizer errors only
error_policy_by_kind(error) ==
    IF error = "ValidationError" THEN AwaitChange ELSE Requeue(RequeueError)

\* error_policy: the Action for a failed reconcile
error_policy(error) == Requeue(RequeueError)

\* a closure that ends the stream at the first error
for_each_item_stop(res) == IF res.kind = "Ok" THEN "continue" ELSE "stop"

\* the closure main passes to for_each: it prints and goes on to the next item
for_each_item(res) == "continue"

\* where an invocation of reconcile stands: the store call it issues next
\* MetricsCollector::record_error: the labels of the counter it increments
record_error(error_type_label, namespace) ==
    [error_type |-> error_type_label, namespace |-> namespace]

\* The gauge and the counter as an invocation finds them, start_reconcile and
\* ReconcileTimer::success, the one way reconcile ends its timer
NoReconcile == [active_reconciles |-> 0, reconcile_total |-> <<>>]
start_reconcile(m) == [m EXCEPT !.active_reconciles = @ + 1]
timer_success(m) ==
    [active_reconciles |-> m.active_reconciles - 1,
     reconcile_total |-> Append(m.reconcile_total, "success")]

At(step, k) == [at |-> step, kind |-> k]
Idle == At("idle", "-")
Done == At("done", "-")

----------------------------------------------------------------------------
(* The object store *)

\* a resource with the derived name that somebody else created
ForeignChild(o, kind) ==
    IF kind = "deployment"
    THEN [name |-> <<o, "deployment">>, namespace |-> Namespace,
          labels |-> {}, ownerReferences |-> <<>>,
          replicas |-> 1, selector |-> {}, templateLabels |-> {},
          image |-> "other:1", env |-> {}]
    ELSE [name |-> <<o, "service">>, namespace |-> Namespace,
          labels |-> {}, ownerReferences |-> <<>>,
          selector |-> {}, port |-> ServicePortNumber,
          targetPort |-> ServicePortNumber]

\* A write that changes nothing leaves the resourceVersion as it is.
Written(old, new) ==
    IF new = [old EXCEPT !.resourceVersion = new.resourceVersion]
    THEN old
    ELSE [new EXCEPT !.resourceVersion = old.resourceVersion + 1]

\* The store removes an object that is being deleted and holds no finalizer.
Collected(obj) ==
    IF obj.deletionTimestamp /\ obj.finalizers = <<>> THEN None ELSE Some(obj)

\* A merge patch of metadata.finalizers: the list is replaced by the patch's.
\* The patch of main.rs carries no resourceVersion, so the store compares none.
\* The store refuses new finalizers on an object that is being deleted.
FinalizerPatchAllowed(obj, patch) ==
    obj.deletionTimestamp =>
        \A i \in 1..Len(patch.finalizers) : Contains(obj.finalizers, patch.finalizers[i])

ApplyFinalizerPatch(obj, patch) ==
    Collected(Written(obj, [obj EXCEPT !.finalizers = patch.finalizers]))

\* A merge patch of the status subresource: only .status is taken from it.
ApplyStatusPatch(obj, status) ==
    Some(Written(obj, [obj EXCEPT !.status = Some(status)]))

----------------------------------------------------------------------------
\* the controller before its first step
ControllerInit ==
    /\ store = [o \in Names |-> None]
    /\ children = [o \in Names |-> [k \in Kinds |-> None]]
    /\ cache = [o \in Names |-> None]
    /\ pending = [o \in Names |-> FALSE]
    /\ directive = [o \in Names |-> AwaitChange]
    /\ pc = [o \in Names |-> Idle]
    /\ snap = [o \in Names |-> None]
    /\ calls = [o \in Names |-> <<>>]
    /\ result = [o \in Names |-> NoResult]
    /\ errors = [o \in Names |-> <<>>]
    /\ running = TRUE
    /\ events = 0
    /\ created = {}
    /\ settled = [o \in Names |-> None]
    /\ stale = [o \in Names |-> None]
    /\ metrics = [o \in Names |-> NoReconcile]

Init ==
    /\ ControllerInit
    /\ request = None
    /\ response = None

\* one more event, within the bound
Event == events < MaxEvents /\ events' = events + 1

\* the stored object is the one reconcile was called with, but for its status
Unchanged(myapp, stored) ==
    [myapp EXCEPT !.status = None, !.resourceVersion = 0]
        = [stored EXCEPT !.status = None, !.resourceVersion = 0]

\* nothing has touched the object since reconcile was called with it as stored
Unsettled ==
    [reconciled |-> FALSE, children |-> [k \in Kinds |-> None], finalizers |-> <<>>]

\* something other than the controller's own successful steps touched o
Disturb(o) == settled' = [settled EXCEPT ![o] = None]

ctl == <<pending, directive, pc, snap, calls, result, errors, running, metrics>>

----------------------------------------------------------------------------
(* Users, other controllers and the cache *)

UserCreate(o, spec) ==
    /\ Disturb(o)
    /\ o \notin created
    /\ store' = [store EXCEPT ![o] = Some(NewMyApp(o, spec))]
    /\ created' = created \cup {o}
    /\ UNCHANGED <<children, cache, ctl, events, adm, stale>>

UserUpdateSpec(o, spec) ==
    /\ Disturb(o)
    /\ Event
    /\ IsSome(store[o])
    /\ Unwrap(store[o]).spec # spec
    /\ LET obj == Unwrap(store[o])
       IN store' = [store EXCEPT ![o] =
             Some([obj EXCEPT !.spec = spec, !.generation = @ + 1,
                              !.resourceVersion = @ + 1])]
    /\ UNCHANGED <<children, cache, ctl, created, adm, stale>>

UserDelete(o) ==
    /\ Disturb(o)
    /\ IsSome(store[o])
    /\ ~Unwrap(store[o]).deletionTimestamp
    /\ LET obj == Unwrap(store[o])
       IN store' = [store EXCEPT ![o] =
             Collected([obj EXCEPT !.deletionTimestamp = TRUE,
                                   !.resourceVersion = @ + 1])]
    /\ UNCHANGED <<children, cache, ctl, events, created, adm, stale>>

\* another controller adds or removes its own token, reading and writing at once
OtherFinalizerChange(o) ==
    /\ Disturb(o)
    /\ Event
    /\ IsSome(store[o])
    /\ LET obj == Unwrap(store[o])
           fins == IF Contains(obj.finalizers, OtherFinalizer)
                   THEN Retain(obj.finalizers, OtherFinalizer)
                   ELSE Append(obj.finalizers, OtherFinalizer)
       IN /\ FinalizerPatchAllowed(obj, [finalizers |-> fins])
          /\ store' = [store EXCEPT ![o] = ApplyFinalizerPatch(obj, [finalizers |-> fins])]
    /\ UNCHANGED <<children, cache, ctl, created, adm, stale>>

\* somebody else creates a resource that has the derived name
ExtCreateChild(o, k) ==
    /\ Disturb(o)
    /\ Event
    /\ IsSome(store[o])
    /\ children[o][k] = None
    /\ children' = [children EXCEPT ![o][k] = Some(ForeignChild(o, k))]
    /\ UNCHANGED <<store, cache, ctl, created, adm, stale>>

\* somebody else deletes a child
ExtDeleteChild(o, k) ==
    /\ Disturb(o)
    /\ Event
    /\ IsSome(children[o][k])
    /\ children' = [children EXCEPT ![o][k] = None]
    /\ UNCHANGED <<store, cache, ctl, created, adm, stale>>

\* the watch delivers the object's current state: the cache takes it and the
\* controller queues the object
CacheUpdate(o) ==
    /\ running
    /\ cache[o] # store[o]
    /\ cache' = [cache EXCEPT ![o] = store[o]]
    /\ pending' = [pending EXCEPT ![o] = IsSome(store[o])]
    /\ UNCHANGED <<store, children, directive, pc, snap, calls, result, errors,
                   metrics, running, events, created, settled, adm, stale>>

----------------------------------------------------------------------------
(* reconcile, one action per store call *)

HasFinalizer(myapp) == Contains(myapp.finalizers, FINALIZER)

\* reconcile without its call of validate
reconcile_entry_unvalidated(myapp) ==
    IF myapp.deletionTimestamp
    THEN IF HasFinalizer(myapp)
         THEN [pc |-> At("cleanup_get", "deployment"), result |-> NoResult, errors |-> <<>>]
         ELSE [pc |-> Done, result |-> Ok(AwaitChange), errors |-> <<>>]
    ELSE IF ~HasFinalizer(myapp)
         THEN [pc |-> At("add_finalizer", "-"), result |-> NoResult, errors |-> <<>>]
    ELSE [pc |-> At("get", "deployment"), result |-> NoResult, errors |-> <<>>]

\* reconcile asking for a resync of an object that is being deleted and holds
\* no finalizer
reconcile_entry_requeue_terminating(myapp) ==
    IF myapp.deletionTimestamp
    THEN IF HasFinalizer(myapp)
         THEN [pc |-> At("cleanup_get", "deployment"), result |-> NoResult, errors |-> <<>>]
         ELSE [pc |-> Done, result |-> Ok(Requeue(RequeueResync)), errors |-> <<>>]
    ELSE IF ~HasFinalizer(myapp)
         THEN [pc |-> At("add_finalizer", "-"), result |-> NoResult, errors |-> <<>>]
    ELSE IF validate(myapp) # "Ok"
         THEN [pc |-> Done, result |-> Err("ValidationError"),
               errors |-> <<"validation_error">>]
    ELSE [pc |-> At("get", "deployment"), result |-> NoResult, errors |-> <<>>]

\* reconcile writing the status of an object that is being deleted and holds
\* no finalizer
reconcile_entry_status_on_delete(myapp) ==
    IF myapp.deletionTimestamp
    THEN IF HasFinalizer(myapp)
         THEN [pc |-> At("cleanup_get", "deployment"), result |-> NoResult, errors |-> <<>>]
         ELSE [pc |-> At("patch_status", "-"), result |-> NoResult, errors |-> <<>>]
    ELSE IF ~HasFinalizer(myapp)
         THEN [pc |-> At("add_finalizer", "-"), result |-> NoResult, errors |-> <<>>]
    ELSE IF validate(myapp) # "Ok"
         THEN [pc |-> Done, result |-> Err("ValidationError"),
               errors |-> <<"validation_error">>]
    ELSE [pc |-> At("get", "deployment"), result |-> NoResult, errors |-> <<>>]

\* reconcile calling validate before it looks for the finalizer
reconcile_entry_validate_first(myapp) ==
    IF myapp.deletionTimestamp
    THEN IF HasFinalizer(myapp)
         THEN [pc |-> At("cleanup_get", "deployment"), result |-> NoResult, errors |-> <<>>]
         ELSE [pc |-> Done, result |-> Ok(AwaitChange), errors |-> <<>>]
    ELSE IF validate(myapp) # "Ok"
         THEN [pc |-> Done, result |-> Err("ValidationError"),
               errors |-> <<"validation_error">>]
    ELSE IF ~HasFinalizer(myapp)
         THEN [pc |-> At("add_finalizer", "-"), result |-> NoResult, errors |-> <<>>]
    ELSE [pc |-> At("get", "deployment"), result |-> NoResult, errors |-> <<>>]

\* the part of reconcile before its first store call, as a function of the
\* object it was called with: the position to go to, the result if it returns
\* at once, and the errors it counts
reconcile_entry(myapp) ==
    IF myapp.deletionTimestamp
    THEN IF HasFinalizer(myapp)
         THEN [pc |-> At("cleanup_get", "deployment"), result |-> NoResult, errors |-> <<>>]
         ELSE [pc |-> Done, result |-> Ok(AwaitChange), errors |-> <<>>]
    ELSE IF ~HasFinalizer(myapp)
         THEN [pc |-> At("add_finalizer", "-"), result |-> NoResult, errors |-> <<>>]
    ELSE IF validate(myapp) # "Ok"
         THEN [pc |-> Done, result |-> Err("ValidationError"),
               errors |-> <<"validation_error">>]
    ELSE [pc |-> At("get", "deployment"), result |-> NoResult, errors |-> <<>>]

\* The invocation goes on at `next` having counted `errs`, or (next = Done) it
\* returns `res`: Controller::run passes an error through error_policy, keeps
\* the Action for its scheduler and hands the item to main's for_each.
Proceed(o, next, res, errs) ==
    LET myapp == IF pc[o] = Idle THEN Unwrap(cache[o]) ELSE Unwrap(snap[o])
        counted == [i \in 1..Len(errs) |-> record_error(errs[i], myapp.namespace)]
        timer == IF pc[o] = Idle THEN start_reconcile(metrics[o]) ELSE metrics[o]
    IN
    /\ pc' = [pc EXCEPT ![o] = next]
    /\ result' = [result EXCEPT ![o] = res]
    /\ metrics' = [metrics EXCEPT ![o] =
           \* timer.success() precedes the Ok returns of the deletion branch and
           \* of the Active path; the Ok return after add_finalizer and the
           \* error returns drop the timer
           IF next = Done /\ res.kind = "Ok"
              /\ (myapp.deletionTimestamp \/ HasFinalizer(myapp))
           THEN timer_success(timer) ELSE timer]
    /\ IF next = Done
       THEN /\ errors' = [errors EXCEPT ![o] =
                   @ \o counted
                     \o (IF res.kind = "Ok" THEN <<>>
                         ELSE <<record_error(error_type(res.kind), myapp.namespace)>>)]
            /\ directive' = [directive EXCEPT ![o] =
                   IF res.kind = "Ok" THEN res.action ELSE error_policy(res.kind)]
            /\ running' = (for_each_item(res) = "continue")
       ELSE /\ errors' = [errors EXCEPT ![o] = @ \o counted]
            /\ UNCHANGED <<directive, running>>

\* The controller calls reconcile for an object of its cache when an event for
\* it is queued or the last directive asked for a requeue; one at a time per
\* object.
reconcile_start(o) ==
    /\ running
    /\ pc[o] = Idle
    /\ IsSome(cache[o])
    /\ pending[o] \/ directive[o] # AwaitChange
    /\ LET e == reconcile_entry(Unwrap(cache[o]))
       IN Proceed(o, e.pc, e.result, e.errors)
    /\ snap' = [snap EXCEPT ![o] = cache[o]]
    /\ calls' = [calls EXCEPT ![o] = <<>>]
    /\ pending' = [pending EXCEPT ![o] = FALSE]
    /\ settled' = [settled EXCEPT ![o] =
          IF IsSome(@) THEN @
          ELSE IF IsSome(store[o]) /\ Unchanged(Unwrap(cache[o]), Unwrap(store[o]))
               THEN Some(Unsettled)
               ELSE None]
    /\ UNCHANGED <<store, children, cache, events, created, adm, stale>>

\* a step of reconcile that issues a store call: the call is logged
Step(o, call, outcome, next, res, errs) ==
    /\ calls' = [calls EXCEPT ![o] = Append(@, <<call, outcome>>)]
    /\ Proceed(o, next, res, errs)
    /\ UNCHANGED <<cache, pending, snap, created, adm, stale>>

\* a store call fails for a reason of its own (network, server)
Fault(o) == Event /\ Disturb(o)

\* cleanup_resources: get_opt of the child
cleanup_get(o, k) ==
    /\ pc[o] = At("cleanup_get", k)
    /\ \/ /\ Fault(o)
          /\ Step(o, <<"get", k>>, "error", Done, Err("FinalizerError"),
                  <<"finalizer_cleanup_error">>)
       \/ /\ UNCHANGED events
          /\ UNCHANGED settled
          /\ IF IsSome(children[o][k])
             THEN Step(o, <<"get", k>>, "some", At("cleanup_delete", k), NoResult, <<>>)
             ELSE Step(o, <<"get", k>>, "none",
                       IF k = "deployment" THEN At("cleanup_get", "service")
                                           ELSE At("remove_finalizer", "-"),
                       NoResult, <<>>)
    /\ UNCHANGED <<store, children>>

\* cleanup_resources going on after a delete that failed
cleanup_delete_unchecked(o, k) ==
    /\ pc[o] = At("cleanup_delete", k)
    /\ \/ /\ Fault(o)
          /\ Step(o, <<"delete", k>>, "error",
                  IF k = "deployment" THEN At("cleanup_get", "service")
                                      ELSE At("remove_finalizer", "-"),
                  NoResult, <<>>)
          /\ UNCHANGED children
       \/ /\ UNCHANGED events
          /\ UNCHANGED settled
          /\ IF IsSome(children[o][k])
             THEN /\ children' = [children EXCEPT ![o][k] = None]
                  /\ Step(o, <<"delete", k>>, "ok",
                          IF k = "deployment" THEN At("cleanup_get", "service")
                                              ELSE At("remove_finalizer", "-"),
                          NoResult, <<>>)
             ELSE /\ UNCHANGED children
                  /\ Step(o, <<"delete", k>>, "not_found", Done,
                          Err("FinalizerError"), <<"finalizer_cleanup_error">>)
    /\ UNCHANGED store

\* cleanup_resources: delete of the child it found
cleanup_delete(o, k) ==
    /\ pc[o] = At("cleanup_delete", k)
    /\ \/ /\ Fault(o)
          /\ Step(o, <<"delete", k>>, "error", Done, Err("FinalizerError"),
                  <<"finalizer_cleanup_error">>)
          /\ UNCHANGED children
       \/ /\ UNCHANGED events
          /\ UNCHANGED settled
          /\ IF IsSome(children[o][k])
             THEN /\ children' = [children EXCEPT ![o][k] = None]
                  /\ Step(o, <<"delete", k>>, "ok",
                          IF k = "deployment" THEN At("cleanup_get", "service")
                                              ELSE At("remove_finalizer", "-"),
                          NoResult, <<>>)
             ELSE /\ UNCHANGED children
                  /\ Step(o, <<"delete", k>>, "not_found", Done,
                          Err("FinalizerError"), <<"finalizer_cleanup_error">>)
    /\ UNCHANGED store

\* remove_finalizer: the merge patch of metadata.finalizers
remove_finalizer(o) ==
    /\ pc[o] = At("remove_finalizer", "-")
    /\ LET patch == remove_finalizer_patch(Unwrap(snap[o]))
       IN \/ /\ Fault(o)
             /\ Step(o, <<"patch", "finalizers">>, "error", Done, Err("KubeError"),
                     <<"finalizer_removal_error">>)
             /\ UNCHANGED store
          \/ /\ UNCHANGED events
             /\ UNCHANGED settled
             /\ IF ~IsSome(store[o])
                THEN /\ Step(o, <<"patch", "finalizers">>, "not_found", Done,
                             Err("KubeError"), <<"finalizer_removal_error">>)
                     /\ UNCHANGED store
                ELSE IF ~FinalizerPatchAllowed(Unwrap(store[o]), patch)
                THEN /\ Step(o, <<"patch", "finalizers">>, "invalid", Done,
                             Err("KubeError"), <<"finalizer_removal_error">>)
                     /\ UNCHANGED store
                ELSE /\ store' = [store EXCEPT ![o] =
                                     ApplyFinalizerPatch(Unwrap(store[o]), patch)]
                     /\ Step(o, <<"patch", "finalizers">>, "ok", Done,
                             Ok(AwaitChange), <<>>)
    /\ UNCHANGED children

\* add_finalizer followed by the rest of reconcile in the same invocation
add_finalizer_continue(o) ==
    /\ pc[o] = At("add_finalizer", "-")
    /\ LET patch == Unwrap(add_finalizer_patch(Unwrap(snap[o])))
       IN \/ /\ Fault(o)
             /\ Step(o, <<"patch", "finalizers">>, "error", Done, Err("KubeError"), <<>>)
             /\ UNCHANGED store
          \/ /\ UNCHANGED events
             /\ UNCHANGED settled
             /\ IF ~IsSome(store[o])
                THEN /\ Step(o, <<"patch", "finalizers">>, "not_found", Done,
                             Err("KubeError"), <<>>)
                     /\ UNCHANGED store
                ELSE IF ~FinalizerPatchAllowed(Unwrap(store[o]), patch)
                THEN /\ Step(o, <<"patch", "finalizers">>, "invalid", Done,
                             Err("KubeError"), <<>>)
                     /\ UNCHANGED store
                ELSE /\ store' = [store EXCEPT ![o] =
                                     ApplyFinalizerPatch(Unwrap(store[o]), patch)]
                     /\ Step(o, <<"patch", "finalizers">>, "ok",
                             At("get", "deployment"), NoResult, <<>>)
    /\ UNCHANGED children

\* add_finalizer: the merge patch of metadata.finalizers, then requeue
add_finalizer(o) ==
    /\ pc[o] = At("add_finalizer", "-")
    /\ LET patch == Unwrap(add_finalizer_patch(Unwrap(snap[o])))
       IN \/ /\ Fault(o)
             /\ Step(o, <<"patch", "finalizers">>, "error", Done, Err("KubeError"), <<>>)
             /\ UNCHANGED store
          \/ /\ UNCHANGED events
             /\ UNCHANGED settled
             /\ IF ~IsSome(store[o])
                THEN /\ Step(o, <<"patch", "finalizers">>, "not_found", Done,
                             Err("KubeError"), <<>>)
                     /\ UNCHANGED store
                ELSE IF ~FinalizerPatchAllowed(Unwrap(store[o]), patch)
                THEN /\ Step(o, <<"patch", "finalizers">>, "invalid", Done,
                             Err("KubeError"), <<>>)
                     /\ UNCHANGED store
                ELSE /\ store' = [store EXCEPT ![o] =
                                     ApplyFinalizerPatch(Unwrap(store[o]), patch)]
                     /\ Step(o, <<"patch", "finalizers">>, "ok", Done,
                             Ok(Requeue(RequeueFinalizer)), <<>>)
    /\ UNCHANGED children

\* reconcile creating the child without looking at what get_opt found
get_child_unchecked(o, k) ==
    /\ pc[o] = At("get", k)
    /\ \/ /\ Fault(o)
          /\ Step(o, <<"get", k>>, "error", Done, Err("KubeError"), <<>>)
       \/ /\ UNCHANGED events
          /\ UNCHANGED settled
          /\ Step(o, <<"get", k>>, IF IsSome(children[o][k]) THEN "some" ELSE "none",
                  At("create", k), NoResult, <<>>)
    /\ UNCHANGED <<store, children>>

\* reconcile replacing the child that get_opt found by the one it would create
get_child_replace(o, k) ==
    /\ pc[o] = At("get", k)
    /\ \/ /\ Fault(o)
          /\ Step(o, <<"get", k>>, "error", Done, Err("KubeError"), <<>>)
          /\ UNCHANGED children
       \/ /\ UNCHANGED events
          /\ UNCHANGED settled
          /\ IF IsSome(children[o][k])
             THEN /\ children' = [children EXCEPT ![o][k] =
                                     Some(build_child(k, Unwrap(snap[o])))]
                  /\ Step(o, <<"get", k>>, "some",
                          IF k = "deployment" THEN At("get", "service")
                                              ELSE At("patch_status", "-"),
                          NoResult, <<>>)
             ELSE /\ UNCHANGED children
                  /\ Step(o, <<"get", k>>, "none", At("create", k), NoResult, <<>>)
    /\ UNCHANGED store

\* reconcile: get_opt of the child
get_child(o, k) ==
    /\ pc[o] = At("get", k)
    /\ \/ /\ Fault(o)
          /\ Step(o, <<"get", k>>, "error", Done, Err("KubeError"), <<>>)
       \/ /\ UNCHANGED events
          /\ UNCHANGED settled
          /\ IF IsSome(children[o][k])
             THEN Step(o, <<"get", k>>, "some",
                       IF k = "deployment" THEN At("get", "service")
                                           ELSE At("patch_status", "-"),
                       NoResult, <<>>)
             ELSE Step(o, <<"get", k>>, "none", At("create", k), NoResult, <<>>)
    /\ UNCHANGED <<store, children>>

\* reconcile going on to the next child after a create that failed
create_child_continue(o, k) ==
    /\ pc[o] = At("create", k)
    /\ \/ /\ Fault(o)
          /\ Step(o, <<"create", k>>, "error",
                  IF k = "deployment" THEN At("get", "service")
                                      ELSE At("patch_status", "-"),
                  NoResult, <<>>)
          /\ UNCHANGED children
       \/ /\ UNCHANGED events
          /\ UNCHANGED settled
          /\ IF IsSome(children[o][k])
             THEN /\ Step(o, <<"create", k>>, "already_exists", Done,
                          Err("KubeError"), <<>>)
                  /\ UNCHANGED children
             ELSE /\ children' = [children EXCEPT ![o][k] =
                                     Some(build_child(k, Unwrap(snap[o])))]
                  /\ Step(o, <<"create", k>>, "ok",
                          IF k = "deployment" THEN At("get", "service")
                                              ELSE At("patch_status", "-"),
                          NoResult, <<>>)
    /\ UNCHANGED store

\* reconcile: create_deployment or create_service for the child it did not find
create_child(o, k) ==
    /\ pc[o] = At("create", k)
    /\ \/ /\ Fault(o)
          /\ Step(o, <<"create", k>>, "error", Done, Err("KubeError"), <<>>)
          /\ UNCHANGED children
       \/ /\ UNCHANGED events
          /\ UNCHANGED settled
          /\ IF IsSome(children[o][k])
             THEN /\ Step(o, <<"create", k>>, "already_exists", Done,
                          Err("KubeError"), <<>>)
                  /\ UNCHANGED children
             ELSE /\ children' = [children EXCEPT ![o][k] =
                                     Some(build_child(k, Unwrap(snap[o])))]
                  /\ Step(o, <<"create", k>>, "ok",
                          IF k = "deployment" THEN At("get", "service")
                                              ELSE At("patch_status", "-"),
                          NoResult, <<>>)
    /\ UNCHANGED store

\* reconcile waiting for the next event after its status write
patch_status_await(o) ==
    /\ pc[o] = At("patch_status", "-")
    /\ \/ /\ Fault(o)
          /\ Step(o, <<"patch", "status">>, "error", Done, Err("KubeError"), <<>>)
          /\ UNCHANGED store
       \/ /\ UNCHANGED events
          /\ IF ~IsSome(store[o])
             THEN /\ Step(o, <<"patch", "status">>, "not_found", Done,
                          Err("KubeError"), <<>>)
                  /\ UNCHANGED <<store, settled>>
             ELSE /\ store' = [store EXCEPT ![o] =
                                  ApplyStatusPatch(Unwrap(store[o]),
                                                   new_status(Unwrap(snap[o])))]
                  /\ settled' = [settled EXCEPT ![o] =
                        IF IsSome(@) /\ Unchanged(Unwrap(snap[o]), Unwrap(store[o]))
                        THEN Some([reconciled |-> TRUE,
                                   children |-> children[o],
                                   finalizers |-> Unwrap(store[o]).finalizers])
                        ELSE None]
                  /\ Step(o, <<"patch", "status">>, "ok", Done, Ok(AwaitChange), <<>>)
    /\ UNCHANGED children

\* reconcile writing its status as an update of the whole object, which the
\* store takes for a change of the object and gives a new generation
patch_status_whole_object(o) ==
    /\ pc[o] = At("patch_status", "-")
    /\ \/ /\ Fault(o)
          /\ Step(o, <<"patch", "status">>, "error", Done, Err("KubeError"), <<>>)
          /\ UNCHANGED store
       \/ /\ UNCHANGED events
          /\ IF ~IsSome(store[o])
             THEN /\ Step(o, <<"patch", "status">>, "not_found", Done,
                          Err("KubeError"), <<>>)
                  /\ UNCHANGED <<store, settled>>
             ELSE /\ store' = [store EXCEPT ![o] =
                                  Some([Unwrap(snap[o]) EXCEPT
                                           !.status = Some(new_status(Unwrap(snap[o]))),
                                           !.deletionTimestamp = Unwrap(store[o]).deletionTimestamp,
                                           !.generation = Unwrap(store[o]).generation + 1,
                                           !.resourceVersion = Unwrap(store[o]).resourceVersion + 1])]
                  /\ settled' = [settled EXCEPT ![o] = None]
                  /\ Step(o, <<"patch", "status">>, "ok", Done,
                          Ok(Requeue(RequeueResync)), <<>>)
    /\ UNCHANGED children

\* reconcile: the merge patch of the status subresource, then requeue
patch_status(o) ==
    /\ pc[o] = At("patch_status", "-")
    /\ \/ /\ Fault(o)
          /\ Step(o, <<"patch", "status">>, "error", Done, Err("KubeError"), <<>>)
          /\ UNCHANGED store
       \/ /\ UNCHANGED events
          /\ IF ~IsSome(store[o])
             THEN /\ Step(o, <<"patch", "status">>, "not_found", Done,
                          Err("KubeError"), <<>>)
                  /\ UNCHANGED <<store, settled>>
             ELSE /\ store' = [store EXCEPT ![o] =
                                  ApplyStatusPatch(Unwrap(store[o]),
                                                   new_status(Unwrap(snap[o])))]
                  /\ settled' = [settled EXCEPT ![o] =
                        IF IsSome(@) /\ Unchanged(Unwrap(snap[o]), Unwrap(store[o]))
                        THEN Some([reconciled |-> TRUE,
                                   children |-> children[o],
                                   finalizers |-> Unwrap(store[o]).finalizers])
                        ELSE None]
                  /\ Step(o, <<"patch", "status">>, "ok", Done,
                          Ok(Requeue(RequeueResync)), <<>>)
    /\ UNCHANGED children

\* the invocation is over: its future and the Arc<MyApp> are dropped
reconcile_return(o) ==
    /\ pc[o] = Done
    /\ pc' = [pc EXCEPT ![o] = Idle]
    /\ snap' = [snap EXCEPT ![o] = None]
    /\ calls' = [calls EXCEPT ![o] = <<>>]
    /\ result' = [result EXCEPT ![o] = NoResult]
    /\ errors' = [errors EXCEPT ![o] = <<>>]
    /\ metrics' = [metrics EXCEPT ![o] = NoReconcile]
    /\ UNCHANGED <<store, children, cache, pending, directive, running, events,
                   created, settled, adm, stale>>

----------------------------------------------------------------------------
\* the steps of the controller for object o
Controller(o) ==
    \/ reconcile_start(o)
    \/ \E k \in Kinds : cleanup_get(o, k)
    \/ \E k \in Kinds : cleanup_delete(o, k)
    \/ remove_finalizer(o)
    \/ add_finalizer(o)
    \/ \E k \in Kinds : get_child(o, k)
    \/ \E k \in Kinds : create_child(o, k)
    \/ patch_status(o)
    \/ reconcile_return(o)

\* One object, with everything that can happen to it.
Next ==
    \/ \E spec \in Specs : UserCreate("a", spec)
    \/ \E spec \in Specs : UserUpdateSpec("a", spec)
    \/ UserDelete("a")
    \/ OtherFinalizerChange("a")
    \/ \E k \in Kinds : ExtCreateChild("a", k)
    \/ \E k \in Kinds : ExtDeleteChild("a", k)
    \/ CacheUpdate("a")
    \/ Controller("a")

Spec == Init /\ [][Next]_vars

\* Two objects under the one controller, with failing store calls and deletion.
\* The runtime polls every reconcile future and delivers every watch event, so
\* each step of the controller and of the cache that stays possible is taken.
NextLive ==
    \/ \E o \in Names, spec \in {SpecDemo, SpecNoReplicas} : UserCreate(o, spec)
    \/ UserDelete("a")
    \/ \E o \in Names : CacheUpdate(o)
    \/ \E o \in Names : Controller(o)

LiveSpec ==
    /\ Init
    /\ [][NextLive]_vars
    /\ \A o \in Names : WF_vars(CacheUpdate(o)) /\ WF_vars(Controller(o))

\* One valid object whose children other actors delete and whose store calls
\* fail now and then; its user leaves the spec alone and may delete it.
NextDrift ==
    \/ UserCreate("a", SpecDemo)
    \/ UserDelete("a")
    \/ \E k \in Kinds : ExtDeleteChild("a", k)
    \/ CacheUpdate("a")
    \/ Controller("a")

DriftSpec ==
    /\ Init
    /\ [][NextDrift]_vars
    /\ WF_vars(CacheUpdate("a")) /\ WF_vars(Controller("a"))

\* The watch delivers the object's current state, as CacheUpdate does, and the
\* snapshot the cache held until then may stay around: in the cache of a second
\* running instance of the controller, or in a relist that is served late.
CacheUpdateKeep(o) ==
    /\ running
    /\ cache[o] # store[o]
    /\ cache' = [cache EXCEPT ![o] = store[o]]
    /\ pending' = [pending EXCEPT ![o] = IsSome(store[o])]
    /\ \E keep \in BOOLEAN :
          stale' = [stale EXCEPT ![o] = IF keep /\ IsSome(cache[o]) THEN cache[o] ELSE @]
    /\ UNCHANGED <<store, children, directive, pc, snap, calls, result, errors,
                   metrics, running, events, created, settled, adm>>

\* The event source delivers the earlier snapshot again: the next reconcile of
\* the object is called with it.
StaleDelivery(o) ==
    /\ running
    /\ Event
    /\ Disturb(o)
    /\ pc[o] = Idle
    /\ IsSome(stale[o])
    /\ cache' = [cache EXCEPT ![o] = stale[o]]
    /\ pending' = [pending EXCEPT ![o] = TRUE]
    /\ stale' = [stale EXCEPT ![o] = None]
    /\ UNCHANGED <<store, children, directive, pc, snap, calls, result, errors,
                   metrics, running, created, adm>>

\* One object under an event source that delivers at least once: snapshots may
\* come again after newer ones.
NextStale ==
    \/ UserCreate("a", SpecDemo)
    \/ UserUpdateSpec("a", SpecScaled)
    \/ UserDelete("a")
    \/ CacheUpdateKeep("a")
    \/ StaleDelivery("a")
    \/ Controller("a")

StaleSpec ==
    /\ Init
    /\ [][NextStale]_vars

----------------------------------------------------------------------------
(* The admission webhooks *)

ManagedByLabel == "app.kubernetes.io/managed-by"
ManagedByPointer == "/metadata/labels/app.kubernetes.io~1managed-by"
ResourcesPointer == "/spec/resources"
DefaultResources == [cpu |-> "100m", memory |-> "128Mi"]

\* str::contains
str_contains(s, pat) ==
    \E i \in 1..(Len(s) - Len(pat) + 1) : SubSeq(s, i, i + Len(pat) - 1) = pat

\* AdmissionResponse::invalid, AdmissionResponse::from and with_patch
AdmissionResponse_invalid(reason) ==
    [allowed |-> FALSE, message |-> reason, patch |-> None]
AdmissionResponse_from(req) == [allowed |-> TRUE, message |-> "", patch |-> None]
with_patch(res, patch) == [res EXCEPT !.patch = Some(patch)]

\* a validating webhook that looks at the image tag only
validate_webhook_response_tag_only(body) ==
    IF body.request = None
    THEN AdmissionResponse_invalid("Invalid request")
    ELSE LET req == Unwrap(body.request)
         IN IF req.object = None
            THEN AdmissionResponse_invalid("No object in request")
            ELSE LET myapp == Unwrap(req.object)
                 IN IF str_contains(myapp.spec.image, "latest")
                    THEN AdmissionResponse_invalid(
                             "Image tag 'latest' is not allowed")
                    ELSE AdmissionResponse_from(req)

\* validate_webhook: the response to an AdmissionReview
validate_webhook_response(body) ==
    IF body.request = None
    THEN AdmissionResponse_invalid("Invalid request")
    ELSE LET req == Unwrap(body.request)
         IN IF req.object = None
            THEN AdmissionResponse_invalid("No object in request")
            ELSE LET myapp == Unwrap(req.object)
                 IN IF validate(myapp) = "Ok"
                    THEN IF str_contains(myapp.spec.image, "latest")
                         THEN AdmissionResponse_invalid(
                                  "Image tag 'latest' is not allowed")
                         ELSE AdmissionResponse_from(req)
                    ELSE AdmissionResponse_invalid(validate(myapp))

\* a mutate that sets the label only where the object has none
mutate_patch_label_if_absent(myapp) ==
    (IF myapp.metadata.labels # None
        /\ \E p \in Unwrap(myapp.metadata.labels) : p[1] = ManagedByLabel
     THEN <<>>
     ELSE <<[op |-> "add", path |-> ManagedByPointer, value |-> ControllerName]>>)
    \o (IF myapp.spec.resources = None
        THEN <<[op |-> "add", path |-> ResourcesPointer, value |-> DefaultResources]>>
        ELSE <<>>)

\* a mutate that sets the default resources on every object
mutate_patch_overwrite(myapp) ==
    <<[op |-> "add", path |-> ManagedByPointer, value |-> ControllerName],
      [op |-> "add", path |-> ResourcesPointer, value |-> DefaultResources]>>

\* mutate_webhook: the operations pushed to `patches`
mutate_patch(myapp) ==
    <<[op |-> "add", path |-> ManagedByPointer, value |-> ControllerName]>>
    \o (IF myapp.spec.resources = None
        THEN <<[op |-> "add", path |-> ResourcesPointer, value |-> DefaultResources]>>
        ELSE <<>>)

\* mutate_webhook: the response to an AdmissionReview
mutate_webhook_response(body) ==
    IF body.request = None
    THEN AdmissionResponse_invalid("Invalid request")
    ELSE LET req == Unwrap(body.request)
         IN IF req.object = None
            THEN AdmissionResponse_invalid("No object in request")
            ELSE with_patch(AdmissionResponse_from(req),
                            mutate_patch(Unwrap(req.object)))

\* The parse of a JSON pointer: its reference tokens, with ~1 read as / and ~0
\* as ~.
RECURSIVE unescape(_)
unescape(tok) ==
    IF Len(tok) < 2 THEN tok
    ELSE IF SubSeq(tok, 1, 2) = "~1" THEN "/" \o unescape(SubSeq(tok, 3, Len(tok)))
    ELSE IF SubSeq(tok, 1, 2) = "~0" THEN "~" \o unescape(SubSeq(tok, 3, Len(tok)))
    ELSE SubSeq(tok, 1, 1) \o unescape(SubSeq(tok, 2, Len(tok)))

RECURSIVE split_tokens(_)
split_tokens(s) ==
    LET slashes == {i \in 1..Len(s) : SubSeq(s, i, i) = "/"}
    IN IF slashes = {} THEN <<unescape(s)>>
       ELSE LET i == CHOOSE j \in slashes : \A k \in slashes : j <= k
            IN <<unescape(SubSeq(s, 1, i - 1))>>
               \o split_tokens(SubSeq(s, i + 1, Len(s)))

pointer_tokens(path) ==
    IF path = "" THEN <<>> ELSE split_tokens(SubSeq(path, 2, Len(path)))

\* A JSON object as a set of <<key, value>> pairs; `add` of a member sets it,
\* whether the key was there or not.
JsonAdd(map, key, value) == {p \in map : p[1] # key} \cup {<<key, value>>}

\* One RFC 6902 add operation applied to an object under review.  The parent of
\* the target has to exist; None: the operation fails.
ApplyAdd(obj, op) ==
    LET toks == pointer_tokens(op.path)
    IN IF Len(toks) = 3 /\ toks[1] = "metadata" /\ toks[2] = "labels"
       THEN IF obj.metadata.labels = None THEN None
            ELSE Some([obj EXCEPT !.metadata.labels =
                           Some(JsonAdd(Unwrap(@), toks[3], op.value))])
       ELSE IF Len(toks) = 2 /\ toks[1] = "spec" /\ toks[2] = "resources"
       THEN Some([obj EXCEPT !.spec.resources = Some(op.value)])
       ELSE None

\* The operations of a JSON patch applied in order; None: the patch fails.
RECURSIVE JsonPatchApply(_, _)
JsonPatchApply(obj, patch) ==
    IF patch = <<>> THEN Some(obj)
    ELSE LET next == ApplyAdd(obj, Head(patch))
         IN IF next = None THEN None
            ELSE JsonPatchApply(Unwrap(next), Tail(patch))

\* The objects sent for review
ReviewReplicas == {-1, 0, 1, 50, 100, 101}
ReviewImages == {"", "app:1.0.0", "app:latest", "nginx:1.25", "latest-app:1.0.0",
                 "app:latest-1"}
ReviewLabels == {None, Some({}), Some({<<"team", "x">>}),
                 Some({<<"team", "x">>, <<ManagedByLabel, "helm">>})}
ReviewResources == {None, Some([cpu |-> "500m", memory |-> "1Gi"])}
ReviewObjects ==
    {[metadata |-> [name |-> "demo", labels |-> l],
      spec |-> [replicas |-> r, image |-> i, envVars |-> {}, resources |-> res]] :
        r \in ReviewReplicas, i \in ReviewImages, l \in ReviewLabels,
        res \in ReviewResources}
\* AdmissionReview bodies: without a request, without an object, with an object
Reviews ==
    {[request |-> None], [request |-> Some([object |-> None])]}
    \cup {[request |-> Some([object |-> Some(obj)])] : obj \in ReviewObjects}

\* the webhook server has been sent a review
WebhookInit ==
    /\ ControllerInit
    /\ request \in {Some([body |-> b, mutated |-> FALSE]) : b \in Reviews}
    /\ response = None

\* POST /validate
validate_webhook ==
    /\ IsSome(request)
    /\ response' = Some([webhook |-> "validate",
                         res |-> validate_webhook_response(Unwrap(request).body)])
    /\ UNCHANGED <<request, store, children, cache, ctl, events, created, settled, stale>>

\* POST /mutate
mutate_webhook ==
    /\ IsSome(request)
    /\ response' = Some([webhook |-> "mutate",
                         res |-> mutate_webhook_response(Unwrap(request).body)])
    /\ UNCHANGED <<request, store, children, cache, ctl, events, created, settled, stale>>

\* The API server applies the patch of the mutate response; the object it gets
\* is what the next write of the object sends for review.
apply_patch ==
    /\ IsSome(request) /\ IsSome(response)
    /\ Unwrap(response).webhook = "mutate"
    /\ Unwrap(response).res.allowed
    /\ LET obj == Unwrap(Unwrap(Unwrap(request).body.request).object)
           patched == JsonPatchApply(obj, Unwrap(Unwrap(response).res.patch))
       IN /\ IsSome(patched)
          /\ request' = Some([body |-> [request |-> Some([object |-> patched])],
                              mutated |-> TRUE])
    /\ response' = None
    /\ UNCHANGED <<store, children, cache, ctl, events, created, settled, stale>>

NextWebhook == validate_webhook \/ mutate_webhook \/ apply_patch

WebhookSpec == WebhookInit /\ [][NextWebhook]_vars

----------------------------------------------------------------------------
(* What the claims speak about *)

Myapp(o) == Unwrap(snap[o])
Returned(o) == pc[o] = Done
Succeeded(o) == Returned(o) /\ result[o].kind = "Ok"
Failed(o) == Returned(o) /\ result[o].kind # "Ok"
Stored(o) == Unwrap(store[o])

\* the invocation has issued `call` and got `outcome`
Called(o, call, outcome) ==
    \E i \in 1..Len(calls[o]) : calls[o][i] = <<call, outcome>>
LastCall(o) == calls[o][Len(calls[o])]

\* the child bears an owner reference to the object o
OwnedBy(child, o) ==
    \E i \in 1..Len(child.ownerReferences) :
        /\ child.ownerReferences[i].name = o
        /\ child.ownerReferences[i].uid = UidOf(o)
OwnedChild(o, k) == IsSome(children[o][k]) /\ OwnedBy(Unwrap(children[o][k]), o)

TokenStored(o) == IsSome(store[o]) /\ HasFinalizer(Stored(o))

\* the snapshot classes of reconcile
Cleanup(o) == IsSome(snap[o]) /\ Myapp(o).deletionTimestamp /\ HasFinalizer(Myapp(o))
Active(o) == IsSome(snap[o]) /\ ~Myapp(o).deletionTimestamp /\ HasFinalizer(Myapp(o))

----------------------------------------------------------------------------
\* C1: when reconcile of a snapshot that is being deleted and holds the
\* controller's finalizer returns success, no Deployment or Service bearing the
\* object's owner reference is left in the store and the stored finalizer list
\* does not contain the controller's token.
C1_CleanupLeavesNothing ==
    \A o \in Names :
        (Cleanup(o) /\ Succeeded(o)) =>
            /\ \A k \in Kinds : ~OwnedChild(o, k)
            /\ ~TokenStored(o)

\* C1 witness: such a reconcile has returned success after deleting both children
C1_Witness ==
    \E o \in Names :
        /\ Cleanup(o) /\ Succeeded(o)
        /\ Called(o, <<"delete", "deployment">>, "ok")
        /\ Called(o, <<"delete", "service">>, "ok")
        /\ Called(o, <<"patch", "finalizers">>, "ok")

\* the cleanup of child k is complete in the calls issued so far: the store
\* answered that the child is absent, or deleted it
CleanedUp(o, k) ==
    \/ Called(o, <<"get", k>>, "none")
    \/ /\ Called(o, <<"get", k>>, "some")
       /\ Called(o, <<"delete", k>>, "ok") \/ Called(o, <<"delete", k>>, "not_found")

\* a store call of cleanup_resources failed
CleanupFailed(o) ==
    \E k \in Kinds :
        Called(o, <<"get", k>>, "error") \/ Called(o, <<"delete", k>>, "error")

\* C2: in a reconcile of an object that is being deleted, the patch that removes
\* the finalizer is issued only after the cleanup of both children has completed
\* without error; when a store call of the cleanup fails, the invocation returns
\* an error with that call as its last one: it issues no finalizer patch, and
\* the step that fails leaves the stored object as it was.
C2_CleanupBeforeFinalizerRemoval ==
    /\ [](\A o \in Names :
            Cleanup(o) =>
              /\ (\E r \in {"ok", "error", "not_found", "invalid"} :
                      Called(o, <<"patch", "finalizers">>, r))
                 => (~CleanupFailed(o) /\ \A k \in Kinds : CleanedUp(o, k))
              /\ pc[o] = At("remove_finalizer", "-")
                 => (~CleanupFailed(o) /\ \A k \in Kinds : CleanedUp(o, k))
              /\ CleanupFailed(o) =>
                    /\ Failed(o)
                    /\ result[o].kind = "FinalizerError"
                    /\ LastCall(o)[1][1] \in {"get", "delete"}
                    /\ LastCall(o)[2] = "error")
    /\ [][\A o \in Names :
            (IsSome(snap'[o]) /\ Unwrap(snap'[o]).deletionTimestamp
                /\ result'[o].kind = "FinalizerError" /\ result[o].kind = "none")
            => store' = store]_vars

\* C2 witness: a cleanup call failed and the reconcile returned FinalizerError
\* while the object still holds the token
C2_Witness ==
    \E o \in Names :
        /\ Cleanup(o) /\ CleanupFailed(o) /\ Failed(o)
        /\ Called(o, <<"delete", "deployment">>, "ok")
        /\ TokenStored(o)

\* C3: when reconcile of a snapshot that is not being deleted returns success,
\* the stored finalizer list contains the controller's token; add_finalizer
\* called with an object that contains the token builds no patch, and with one
\* that does not it appends the token once; the token never occurs in a stored
\* finalizer list more than once.
C3_FinalizerPresentOnce ==
    \A o \in Names :
        /\ (IsSome(snap[o]) /\ ~Myapp(o).deletionTimestamp /\ Succeeded(o))
              => TokenStored(o)
        /\ \A opt \in {store[o], cache[o], snap[o]} :
              IsSome(opt) =>
                 IF HasFinalizer(Unwrap(opt))
                 THEN add_finalizer_patch(Unwrap(opt)) = None
                 ELSE /\ IsSome(add_finalizer_patch(Unwrap(opt)))
                      /\ Count(Unwrap(add_finalizer_patch(Unwrap(opt))).finalizers,
                               FINALIZER) = 1
        /\ IsSome(store[o]) => Count(Stored(o).finalizers, FINALIZER) <= 1

\* C3 witness: the finalizer was added to a list that held another token, and a
\* later reconcile of the object, now holding the token, returned success
C3_Witness ==
    \E o \in Names :
        /\ Active(o) /\ Succeeded(o)
        /\ TokenStored(o)
        /\ Contains(Stored(o).finalizers, OtherFinalizer)

\* C4: after a successful reconcile of an Active object as it is stored, if
\* nothing else has touched the object, its children or the store calls since
\* that reconcile began, every further reconcile leaves the children and the
\* finalizer list exactly as the first left them, with the token in the list
\* once, and returns no error.
C4_ReconcileIdempotent ==
    \A o \in Names :
        (IsSome(settled[o]) /\ Unwrap(settled[o]).reconciled) =>
            /\ children[o] = Unwrap(settled[o]).children
            /\ IsSome(store[o])
            /\ Stored(o).finalizers = Unwrap(settled[o]).finalizers
            /\ Count(Stored(o).finalizers, FINALIZER) = 1
            /\ result[o].kind \in {"none", "Ok"}
            /\ \A k \in Kinds : ~Called(o, <<"create", k>>, "ok")
                                \/ Called(o, <<"patch", "status">>, "ok")

\* C4 witness: a second reconcile in a row has found both children, written the
\* status and returned success
C4_Witness ==
    \E o \in Names :
        /\ IsSome(settled[o]) /\ Unwrap(settled[o]).reconciled
        /\ Succeeded(o)
        /\ calls[o] = << << <<"get", "deployment">>, "some" >>,
                         << <<"get", "service">>, "some" >>,
                         << <<"patch", "status">>, "ok" >> >>

\* C5: when reconcile of an Active object returns success, the stored status is
\* state = Running with observedGeneration = the generation of the object
\* reconcile was called with, and every child it found missing was created in
\* this same invocation.
C5_StatusRunningObserved ==
    \A o \in Names :
        (Active(o) /\ Succeeded(o)) =>
            /\ IsSome(store[o])
            /\ IsSome(Stored(o).status)
            /\ Unwrap(Stored(o).status).state = "Running"
            /\ Unwrap(Stored(o).status).observedGeneration = Myapp(o).generation
            /\ Called(o, <<"patch", "status">>, "ok")
            /\ \A k \in Kinds :
                  Called(o, <<"get", k>>, "none") => Called(o, <<"create", k>>, "ok")
            /\ result[o].action = Requeue(RequeueResync)

\* C5 witness: both children were created and the status written in one pass
C5_Witness ==
    \E o \in Names :
        /\ Active(o) /\ Succeeded(o)
        /\ Called(o, <<"create", "deployment">>, "ok")
        /\ Called(o, <<"create", "service">>, "ok")
        /\ Unwrap(Stored(o).status).observedGeneration = 1

\* C6: whenever status.observedGeneration equals metadata.generation, the
\* children are the ones derived from the stored spec.  Stated for the children
\* the engine itself created and that are still there, so that a child somebody
\* else deleted or created does not count against it.
C6_ObservedGenerationMeansReconciled ==
    \A o \in Names :
        (/\ IsSome(store[o])
         /\ IsSome(Stored(o).status)
         /\ Unwrap(Stored(o).status).observedGeneration = Stored(o).generation
         /\ \A k \in Kinds : OwnedChild(o, k))
        => \A k \in Kinds : Unwrap(children[o][k]) = build_child(k, Stored(o))

\* C7: a reconcile of an object that is not being deleted, holds the finalizer
\* and fails validate returns ValidationError at once: it has issued no store
\* call, and the step that returns the error changes neither the stored objects
\* nor the children.  ValidationError is returned in no other case.
C7_ValidationErrorTouchesNothing ==
    /\ [](\A o \in Names :
            /\ (Active(o) /\ validate(Myapp(o)) # "Ok")
                  => (Returned(o) /\ result[o].kind = "ValidationError")
            /\ result[o].kind = "ValidationError"
                  => (Active(o) /\ validate(Myapp(o)) # "Ok" /\ calls[o] = <<>>))
    /\ [][\A o \in Names :
            (result'[o].kind = "ValidationError" /\ result[o].kind # "ValidationError")
            => (store' = store /\ children' = children)]_vars

\* C7 witness: an object that holds the finalizer, has children and a status got
\* a spec with no replicas, and its reconcile returned ValidationError
C7_Witness ==
    \E o \in Names :
        /\ Returned(o) /\ result[o].kind = "ValidationError"
        /\ Myapp(o).spec.replicas = 0
        /\ TokenStored(o)
        /\ \A k \in Kinds : OwnedChild(o, k)
        /\ IsSome(Stored(o).status)

\* C8: a create that the store answers with already-exists, and a delete that it
\* answers with not-found, are treated as success: reconcile does not return an
\* error on such an answer.
C8_RacesTolerated ==
    \A o \in Names :
        (/\ Returned(o)
         /\ calls[o] # <<>>
         /\ \/ LastCall(o)[1][1] = "create" /\ LastCall(o)[2] = "already_exists"
            \/ LastCall(o)[1][1] = "delete" /\ LastCall(o)[2] = "not_found")
        => result[o].kind = "Ok"

\* C9: every write of the engine to the desired-state object that the store
\* applies was computed from the version of the object that is stored: the store
\* rejects a write computed from an older resourceVersion.
C9_WritesCheckResourceVersion ==
    [][\A o \in Names :
          (/\ IsSome(snap[o]) /\ IsSome(store[o])
           /\ Len(calls'[o]) = Len(calls[o]) + 1
           /\ calls'[o][Len(calls'[o])][1][1] = "patch"
           /\ calls'[o][Len(calls'[o])][2] = "ok")
          => Myapp(o).resourceVersion = Stored(o).resourceVersion]_vars

\* C10: a failing object never halts the others.  Every failed reconcile ends
\* in a requeue, the controller keeps running, and every stored object that is
\* not being deleted and passes validate gets the status Running (unless it is
\* deleted first), whatever happens to the other object.
C10_FailingObjectDoesNotHaltOthers ==
    /\ [](running)
    /\ [](\A o \in Names : Failed(o) => directive[o] = Requeue(RequeueError))
    /\ \A o \in Names :
          (IsSome(store[o]) /\ validate(Stored(o)) = "Ok"
                            /\ ~Stored(o).deletionTimestamp)
          ~> (\/ ~IsSome(store[o])
              \/ Stored(o).deletionTimestamp
              \/ /\ IsSome(Stored(o).status)
                 /\ Unwrap(Stored(o).status).state = "Running")

\* C10 witness: a reconcile of a has returned an error, and a reconcile of b
\* has returned success with the status of b Running
C10_Witness ==
    /\ Failed("a")
    /\ IsSome(store["b"]) /\ ~Stored("b").deletionTimestamp
    /\ IsSome(Stored("b").status)
    /\ Unwrap(Stored("b").status).state = "Running"
    /\ Succeeded("b")

\* the snapshot of a reconcile that only has the finalizer to add
NeedsFinalizer(o) ==
    IsSome(snap[o]) /\ ~Myapp(o).deletionTimestamp /\ ~HasFinalizer(Myapp(o))

\* the object is stored, not being deleted, and passes validate
ValidStored(o) ==
    IsSome(store[o]) /\ ~Stored(o).deletionTimestamp /\ validate(Stored(o)) = "Ok"

\* the state a created object converges to
Converged(o) ==
    /\ TokenStored(o)
    /\ \A k \in Kinds : IsSome(children[o][k])
    /\ IsSome(Stored(o).status)
    /\ Unwrap(Stored(o).status).state = "Running"
    /\ Unwrap(Stored(o).status).observedGeneration = Stored(o).generation

\* C11: a stored object that passes validate and is not being deleted gets the
\* finalizer, both children and the status Running with observedGeneration =
\* generation (unless it is deleted first).  The reconcile that is called with
\* the object without the token issues the finalizer patch and nothing else,
\* and requeues after RequeueFinalizer; no child and no status exist by then.
\* Children are created and the status written only by a reconcile that is
\* called with the token in place.
C11_ConvergenceOnCreation ==
    /\ [](\A o \in Names :
            /\ NeedsFinalizer(o) =>
                  /\ Len(calls[o]) <= 1
                  /\ \A i \in 1..Len(calls[o]) :
                        calls[o][i][1] = <<"patch", "finalizers">>
                  /\ \A k \in Kinds : children[o][k] = None
                  /\ IsSome(store[o]) => Stored(o).status = None
                  /\ Succeeded(o) =>
                        /\ calls[o] = << << <<"patch", "finalizers">>, "ok" >> >>
                        /\ result[o].action = Requeue(RequeueFinalizer)
            /\ (\/ \E k \in Kinds : Called(o, <<"create", k>>, "ok")
                \/ Called(o, <<"patch", "status">>, "ok"))
                  => Active(o))
    /\ \A o \in Names :
          ValidStored(o) ~> (~ValidStored(o) \/ Converged(o))

\* C11 witness: the reconcile called with the token in place has created both
\* children and written the status of generation 1
C11_Witness ==
    \E o \in Names :
        /\ Active(o) /\ Succeeded(o)
        /\ calls[o] = << << <<"get", "deployment">>, "none" >>,
                         << <<"create", "deployment">>, "ok" >>,
                         << <<"get", "service">>, "none" >>,
                         << <<"create", "service">>, "ok" >>,
                         << <<"patch", "status">>, "ok" >> >>
        /\ ValidStored(o) /\ Converged(o)
        /\ Stored(o).generation = 1

\* the object is stored, being deleted, and holds the controller's token
Terminating(o) ==
    IsSome(store[o]) /\ Stored(o).deletionTimestamp /\ TokenStored(o)

\* C12: once an object that holds the token is being deleted, both children
\* get deleted and the token removed.  A cleanup that fails is requeued by the
\* error policy, and the retry finishes what the failed attempt left.
C12_ConvergenceOnDeletion ==
    /\ [](\A o \in Names :
            (Cleanup(o) /\ Failed(o)) => directive[o] = Requeue(RequeueError))
    /\ \A o \in Names :
          Terminating(o) ~> (/\ \A k \in Kinds : children[o][k] = None
                             /\ ~TokenStored(o))

\* C12 witness: the retry of a cleanup that had deleted the Deployment and then
\* failed finds the Deployment gone, deletes the Service and removes the token
C12_Witness ==
    \E o \in Names :
        /\ Cleanup(o) /\ Succeeded(o)
        /\ events > 0
        /\ calls[o] = << << <<"get", "deployment">>, "none" >>,
                         << <<"get", "service">>, "some" >>,
                         << <<"delete", "service">>, "ok" >>,
                         << <<"patch", "finalizers">>, "ok" >> >>
        /\ ~IsSome(store[o])
        /\ \A k \in Kinds : children[o][k] = None

\* C13: every successful reconcile of an Active object returns
\* requeue(RequeueResync), which the controller keeps as the object's directive;
\* a child of a stored Active object that is missing gets created again
\* (unless the object is deleted first), also when the object itself did not
\* change and so no watch event arrives for it.
C13_PeriodicDriftDetection ==
    /\ [](\A o \in Names :
            (Active(o) /\ Succeeded(o)) =>
                /\ result[o].action = Requeue(RequeueResync)
                /\ directive[o] = Requeue(RequeueResync))
    /\ \A o \in Names : \A k \in Kinds :
          (ValidStored(o) /\ TokenStored(o) /\ children[o][k] = None)
          ~> (IsSome(children[o][k]) \/ ~ValidStored(o))

\* C13 witness: the Deployment of a fully reconciled object is gone, the cache
\* is up to date, no event is queued and no reconcile is in flight: only the
\* requeue directive of the last success brings the controller back
C13_Witness ==
    \E o \in Names :
        /\ ValidStored(o) /\ TokenStored(o)
        /\ IsSome(Stored(o).status)
        /\ Unwrap(Stored(o).status).observedGeneration = Stored(o).generation
        /\ children[o]["deployment"] = None
        /\ IsSome(children[o]["service"])
        /\ pc[o] = Idle /\ ~pending[o] /\ cache[o] = store[o]
        /\ directive[o] = Requeue(RequeueResync)

\* C14: the Action of a successful reconcile is determined by the class of the
\* object it was called with: await_change when it is being deleted, with or
\* without the token; requeue(RequeueFinalizer) when it is not being deleted and
\* lacks the token; requeue(RequeueResync) otherwise.
C14_DirectiveByClass ==
    \A o \in Names :
        Succeeded(o) =>
            LET action == IF Myapp(o).deletionTimestamp THEN AwaitChange
                          ELSE IF ~HasFinalizer(Myapp(o))
                               THEN Requeue(RequeueFinalizer)
                               ELSE Requeue(RequeueResync)
            IN /\ result[o].action = action
               /\ directive[o] = action

\* C14 witness: a reconcile of an object that is being deleted and is held by
\* another controller's finalizer only has returned await_change at once
C14_Witness ==
    \E o \in Names :
        /\ Succeeded(o)
        /\ Myapp(o).deletionTimestamp /\ ~HasFinalizer(Myapp(o))
        /\ calls[o] = <<>>
        /\ directive[o] = AwaitChange

\* C15: error_policy gives requeue(RequeueError) for each of the three error
\* kinds, never await_change, and that is the directive the controller holds
\* after every failed reconcile.
C15_UniformErrorRequeue ==
    /\ \A error \in {"KubeError", "ValidationError", "FinalizerError"} :
          /\ error_policy(error) = Requeue(RequeueError)
          /\ error_policy(error) # AwaitChange
    /\ \A o \in Names :
          Failed(o) =>
              /\ result[o].kind \in {"KubeError", "ValidationError", "FinalizerError"}
              /\ directive[o] = error_policy(result[o].kind)
              /\ directive[o] = Requeue(RequeueError)

\* C15 witness: a reconcile has failed validation while the cache is up to date
\* and no event is queued, so that only the directive brings the controller back
C15_Witness ==
    \E o \in Names :
        /\ Failed(o) /\ result[o].kind = "ValidationError"
        /\ cache[o] = store[o] /\ ~pending[o]
        /\ \A k \in Kinds : children[o][k] = None
        /\ directive[o] = Requeue(RequeueError)

\* the review in hand carries an object, and webhook w has answered it
Answered(w) ==
    /\ IsSome(request) /\ IsSome(response)
    /\ Unwrap(response).webhook = w
    /\ Unwrap(request).body.request # None
    /\ Unwrap(Unwrap(request).body.request).object # None
Reviewed == Unwrap(Unwrap(Unwrap(request).body.request).object)
Verdict == Unwrap(response).res

\* C16: the validating webhook rejects an object with replicas below 1 or above
\* 100 with the reason 'replicas must be between 1 and 100' and an object with
\* replicas in range and an empty image with the reason 'image cannot be
\* empty', as MyApp::validate does; it allows replicas 1 and replicas 100 with
\* the image app:1.0.0.
C16_ValidateReasons ==
    Answered("validate") =>
        /\ (Reviewed.spec.replicas < 1 \/ Reviewed.spec.replicas > 100) =>
              /\ validate(Reviewed) = "replicas must be between 1 and 100"
              /\ ~Verdict.allowed
              /\ Verdict.message = "replicas must be between 1 and 100"
        /\ (Reviewed.spec.replicas \in 1..100 /\ Reviewed.spec.image = "") =>
              /\ validate(Reviewed) = "image cannot be empty"
              /\ ~Verdict.allowed
              /\ Verdict.message = "image cannot be empty"
        /\ (Reviewed.spec.replicas \in {1, 100} /\ Reviewed.spec.image = "app:1.0.0") =>
              /\ validate(Reviewed) = "Ok"
              /\ Verdict.allowed
              /\ Verdict.patch = None

\* C16 witness: replicas 100 with the image app:1.0.0 was allowed
C16_Witness ==
    /\ Answered("validate")
    /\ Reviewed.spec.replicas = 100 /\ Reviewed.spec.image = "app:1.0.0"
    /\ Verdict.allowed

\* the tag of an image reference: what follows its last colon
ImageTag(image) ==
    LET colons == {i \in 1..Len(image) : SubSeq(image, i, i) = ":"}
    IN IF colons = {} THEN ""
       ELSE LET i == CHOOSE j \in colons : \A k \in colons : k <= j
            IN SubSeq(image, i + 1, Len(image))

\* C17: an object with replicas in range and a non-empty image is rejected by
\* the validating webhook exactly when the tag of its image is `latest`.
C17_RejectsExactlyTagLatest ==
    (/\ Answered("validate")
     /\ Reviewed.spec.replicas \in 1..100
     /\ Reviewed.spec.image # "")
    => (~Verdict.allowed <=> ImageTag(Reviewed.spec.image) = "latest")

\* C18: the mutating webhook allows every object and returns a patch of add
\* operations: one that sets the label app.kubernetes.io/managed-by to
\* myapp-controller, and one that sets /spec/resources to cpu 100m and memory
\* 128Mi exactly when the object has no resources; nothing else.
C18_MutatePatchOperations ==
    Answered("mutate") =>
        /\ Verdict.allowed
        /\ IsSome(Verdict.patch)
        /\ LET patch == Unwrap(Verdict.patch)
               label == {i \in 1..Len(patch) :
                            pointer_tokens(patch[i].path) =
                               <<"metadata", "labels", "app.kubernetes.io/managed-by">>}
               resources == {i \in 1..Len(patch) :
                                pointer_tokens(patch[i].path) = <<"spec", "resources">>}
           IN /\ \A i \in 1..Len(patch) : patch[i].op = "add"
              /\ label \cup resources = 1..Len(patch)
              /\ Cardinality(label) = 1
              /\ \A i \in label : patch[i].value = "myapp-controller"
              /\ Cardinality(resources) =
                    IF Reviewed.spec.resources = None THEN 1 ELSE 0
              /\ \A i \in resources :
                    patch[i].value = [cpu |-> "100m", memory |-> "128Mi"]

\* C18 witness: an object without resources got both operations, one that has
\* resources only the label
C18_Witness ==
    /\ Answered("mutate")
    /\ Reviewed.spec.resources = None
    /\ Len(Unwrap(Verdict.patch)) = 2
    /\ Len(mutate_patch([Reviewed EXCEPT !.spec.resources = Some(DefaultResources)])) = 1

\* C19: the object the patch of the mutating webhook gives has every field of
\* the object under review as it was, but for the managed-by label, which is
\* set, and for resources, which are set where there were none; when the object
\* under review is itself the result of such a patch, the patch computed for it
\* gives the same object again.
C19_MutateAdditiveIdempotent ==
    (Answered("mutate") /\ IsSome(JsonPatchApply(Reviewed, Unwrap(Verdict.patch)))) =>
        LET patched == Unwrap(JsonPatchApply(Reviewed, Unwrap(Verdict.patch)))
            before == Unwrap(Reviewed.metadata.labels)
            after == Unwrap(patched.metadata.labels)
        IN /\ patched.metadata.name = Reviewed.metadata.name
           /\ patched.spec.replicas = Reviewed.spec.replicas
           /\ patched.spec.image = Reviewed.spec.image
           /\ patched.spec.envVars = Reviewed.spec.envVars
           /\ Reviewed.spec.resources # None =>
                 patched.spec.resources = Reviewed.spec.resources
           /\ patched.spec.resources # None
           /\ \A p \in before : p[1] # ManagedByLabel => p \in after
           /\ \A p \in after : p[1] # ManagedByLabel => p \in before
           /\ \A p \in after : p[1] = ManagedByLabel => p[2] = ControllerName
           /\ \E p \in after : p[1] = ManagedByLabel
           /\ Unwrap(request).mutated => patched = Reviewed

\* C19 witness: an object with a label and resources of its user's went through
\* the patch, and the patch computed for the result leaves it as it is
C19_Witness ==
    /\ Answered("mutate")
    /\ Unwrap(request).mutated
    /\ <<"team", "x">> \in Unwrap(Reviewed.metadata.labels)
    /\ Reviewed.spec.resources = Some([cpu |-> "500m", memory |-> "1Gi"])
    /\ JsonPatchApply(Reviewed, Unwrap(Verdict.patch)) = Some(Reviewed)

\* C20: every child the engine created carries the labels app = the name of its
\* MyApp and managed-by = myapp-controller, the Deployment and the Service
\* alike, and the selector and the pod template labels of the Deployment are
\* that label set.
C20_ChildLabels ==
    \A o \in Names : \A k \in Kinds :
        OwnedChild(o, k) =>
            LET child == Unwrap(children[o][k])
                labels == {<<"app", o>>, <<"managed-by", "myapp-controller">>}
            IN /\ child.labels = labels
               /\ k = "deployment" =>
                     (child.selector = labels /\ child.templateLabels = labels)

\* the step is a store call of the reconcile of o that the store answered ok
EngineCall(o, call) ==
    /\ Len(calls'[o]) = Len(calls[o]) + 1
    /\ calls'[o][Len(calls'[o])] = <<call, "ok">>

\* C21: a child the engine creates carries one owner reference, with the name
\* and the uid of the MyApp reconcile was called with, controller = true and
\* blockOwnerDeletion = true, and is created in the namespace of that MyApp.
C21_OneOwnerReference ==
    /\ [][\A o \in Names : \A k \in Kinds :
            EngineCall(o, <<"create", k>>) =>
                LET child == Unwrap(children'[o][k])
                IN /\ Len(child.ownerReferences) = 1
                   /\ child.ownerReferences[1].name = Myapp(o).name
                   /\ child.ownerReferences[1].uid = Myapp(o).uid
                   /\ child.ownerReferences[1].kind = "MyApp"
                   /\ child.ownerReferences[1].controller = TRUE
                   /\ child.ownerReferences[1].blockOwnerDeletion = TRUE
                   /\ child.namespace = Myapp(o).namespace]_vars
    /\ [](\A o \in Names : \A k \in Kinds :
            OwnedChild(o, k) =>
                /\ Len(Unwrap(children[o][k]).ownerReferences) = 1
                /\ Unwrap(children[o][k]).ownerReferences[1].controller
                /\ Unwrap(children[o][k]).ownerReferences[1].blockOwnerDeletion
                /\ Unwrap(children[o][k]).namespace = Namespace)

\* C21 witness: both children were created in this invocation and bear the
\* owner reference of the object
C21_Witness ==
    \E o \in Names :
        /\ Called(o, <<"create", "deployment">>, "ok")
        /\ Called(o, <<"create", "service">>, "ok")
        /\ \A k \in Kinds : OwnedChild(o, k)
        /\ Unwrap(children[o]["service"]).ownerReferences =
              <<create_owner_reference(Myapp(o))>>

\* C22: a reconcile that fails on the add-finalizer patch, on the
\* remove-finalizer patch or on a store call of the cleanup returns
\* FinalizerError; one that fails on a child lookup, a child create or the
\* status write returns KubeError; one that fails validate returns
\* ValidationError.
C22_ErrorTaxonomy ==
    \A o \in Names :
        Failed(o) =>
            IF calls[o] = <<>> THEN result[o].kind = "ValidationError"
            ELSE IF \/ LastCall(o)[1] = <<"patch", "finalizers">>
                    \/ Cleanup(o)
                 THEN result[o].kind = "FinalizerError"
                 ELSE result[o].kind = "KubeError"

\* C23: when reconcile returns ValidationError, the stored status of the object
\* holds a condition that reports the failure, and the error was counted.
C23_ValidationFailureOnStatus ==
    \A o \in Names :
        (Failed(o) /\ result[o].kind = "ValidationError" /\ IsSome(store[o])) =>
            /\ Contains(errors[o], record_error("validation_error", Myapp(o).namespace))
            /\ IsSome(Stored(o).status)
            /\ \E i \in 1..Len(Unwrap(Stored(o).status).conditions) :
                  Unwrap(Stored(o).status).conditions[i].status # "True"

\* C24: a finalizer patch of the engine that the store applies leaves the
\* tokens of other controllers as they were stored just before it, in their
\* order: the stored list changes by the controller's own token only.
C24_ForeignFinalizersPreserved ==
    [][\A o \in Names :
          EngineCall(o, <<"patch", "finalizers">>) =>
              LET after == IF IsSome(store'[o]) THEN Unwrap(store'[o]).finalizers
                           ELSE <<>>
              IN Retain(after, FINALIZER) = Retain(Stored(o).finalizers, FINALIZER)]_vars

\* C25: once the engine has removed its finalizer from an object that is being
\* deleted, no reconcile creates a child for it again: a create of the engine,
\* issued for a snapshot that holds the finalizer, finds the object stored and,
\* if it is being deleted, still holding the controller's token. This is to hold
\* also when the snapshot is an earlier one delivered again.
C25_NoChildAfterFinalizerRemoval ==
    [][\A o \in Names : \A k \in Kinds :
          (EngineCall(o, <<"create", k>>) /\ Active(o)) =>
              /\ IsSome(store[o])
              /\ Stored(o).deletionTimestamp => HasFinalizer(Stored(o))]_vars

\* C30: the observedGeneration of the stored status never exceeds the object's
\* generation, and no step lowers it, also when a reconcile is called with an
\* earlier snapshot of an older generation after a newer one was recorded.
C30_ObservedGenerationMonotone ==
    /\ [](\A o \in Names :
            (IsSome(store[o]) /\ IsSome(Stored(o).status)) =>
                Unwrap(Stored(o).status).observedGeneration <= Stored(o).generation)
    /\ [][\A o \in Names :
            (/\ IsSome(store[o]) /\ IsSome(Stored(o).status)
             /\ IsSome(store'[o]) /\ IsSome(Unwrap(store'[o]).status)) =>
                Unwrap(Unwrap(store'[o]).status).observedGeneration
                    >= Unwrap(Stored(o).status).observedGeneration]_vars

\* C26: a reconcile called with an object that is being deleted issues no
\* create and no status patch, and a finalizer patch it gets applied does not
\* leave the controller's token stored; when the object also lacks the token it
\* issues no store call at all and returns await_change.
C26_TerminatingFrame ==
    /\ [](\A o \in Names :
            (IsSome(snap[o]) /\ Myapp(o).deletionTimestamp) =>
                /\ \A i \in 1..Len(calls[o]) :
                      /\ calls[o][i][1][1] # "create"
                      /\ calls[o][i][1] # <<"patch", "status">>
                /\ ~HasFinalizer(Myapp(o)) =>
                      /\ calls[o] = <<>>
                      /\ Returned(o)
                      /\ result[o] = Ok(AwaitChange))
    /\ [][\A o \in Names :
            (/\ IsSome(snap[o]) /\ Myapp(o).deletionTimestamp
             /\ EngineCall(o, <<"patch", "finalizers">>)) =>
                ~TokenStored(o)']_vars

\* C26 witness: an object that never got a status and that another controller's
\* finalizer holds is being deleted; its reconcile has returned await_change
\* with no store call, and the object is stored as it was, without a status
C26_Witness ==
    \E o \in Names :
        /\ Succeeded(o)
        /\ Myapp(o).deletionTimestamp /\ ~HasFinalizer(Myapp(o))
        /\ calls[o] = <<>>
        /\ store[o] = snap[o]
        /\ Stored(o).finalizers = <<OtherFinalizer>>
        /\ Stored(o).status = None
        /\ \A k \in Kinds : children[o][k] = None

\* C27: a reconcile called with an object that is not being deleted and lacks
\* the finalizer issues one store call, the finalizer patch, and returns: it
\* never returns ValidationError, whatever the spec; the patch, when applied,
\* stores the token and changes neither the children nor the spec or the status
\* of the object.  The engine creates a child only in a reconcile whose snapshot
\* holds the finalizer and is not being deleted.
C27_NeedsFinalizerFrame ==
    /\ [](\A o \in Names :
            NeedsFinalizer(o) =>
                /\ Len(calls[o]) <= 1
                /\ \A i \in 1..Len(calls[o]) : calls[o][i][1] = <<"patch", "finalizers">>
                /\ Returned(o) <=> Len(calls[o]) = 1
                /\ result[o].kind # "ValidationError"
                /\ Succeeded(o) => calls[o] = <<<<<<"patch", "finalizers">>, "ok">>>>)
    /\ [][\A o \in Names :
            /\ (NeedsFinalizer(o) /\ EngineCall(o, <<"patch", "finalizers">>)) =>
                  /\ children' = children
                  /\ TokenStored(o)'
                  /\ Stored(o)'.spec = Stored(o).spec
                  /\ Stored(o)'.status = Stored(o).status
            /\ \A k \in Kinds : EngineCall(o, <<"create", k>>) => Active(o)]_vars

\* C27 witness: an object whose spec fails validate got the finalizer: the
\* reconcile returned success after the one patch, no child exists and the
\* object has no status
C27_Witness ==
    \E o \in Names :
        /\ NeedsFinalizer(o) /\ Succeeded(o)
        /\ validate(Myapp(o)) # "Ok"
        /\ calls[o] = <<<<<<"patch", "finalizers">>, "ok">>>>
        /\ TokenStored(o)
        /\ Stored(o).status = None
        /\ \A k \in Kinds : children[o][k] = None

\* C28: cleanup deletes only what the object owns: a delete of the engine that
\* the store carries out removes a resource that bears the owner reference of
\* the object reconcile was called with, and a lookup of the engine that finds
\* a resource counts it as the object's child only if it bears that reference.
C28_CleanupDeletesOwnedOnly ==
    [][\A o \in Names : \A k \in Kinds :
          /\ EngineCall(o, <<"delete", k>>) => OwnedChild(o, k)
          /\ (/\ Len(calls'[o]) = Len(calls[o]) + 1
              /\ calls'[o][Len(calls'[o])] = <<<<"get", k>>, "some">>) => OwnedChild(o, k)]_vars

Conditions(obj) == IF IsSome(obj.status) THEN Unwrap(obj.status).conditions ELSE <<>>

\* C31: every status write of a successful reconcile appends one Ready=True
\* condition to the conditions the object had: the stored list is the one
\* stored just before, with one more entry at its end.
C31_ConditionsAppended ==
    [][\A o \in Names :
          EngineCall(o, <<"patch", "status">>) =>
              LET before == Conditions(Stored(o))
                  after == Conditions(Unwrap(store'[o]))
              IN /\ Len(after) = Len(before) + 1
                 /\ SubSeq(after, 1, Len(before)) = before
                 /\ after[Len(after)].type = "Ready"
                 /\ after[Len(after)].status = "True"]_vars

\* the outcomes of a store call that are not errors
Fine == {"ok", "some", "none"}

\* C32: an invocation of reconcile issues at most five store calls and none of
\* them twice; a call that the store answers with an error is its last: the
\* invocation has returned, with an error, and no call follows it.
C32_BoundedCallsNoRetry ==
    \A o \in Names :
        /\ Len(calls[o]) <= 5
        /\ \A i, j \in 1..Len(calls[o]) : calls[o][i][1] = calls[o][j][1] => i = j
        /\ \A i \in 1..Len(calls[o]) :
              calls[o][i][2] \notin Fine => (i = Len(calls[o]) /\ Failed(o))

\* C32 witness: the create of the Deployment failed; the reconcile has returned
\* the error after its two calls, no Service was looked up or created and the
\* object has no status
C32_Witness ==
    \E o \in Names :
        /\ Failed(o)
        /\ calls[o] = << <<<<"get", "deployment">>, "none">>,
                         <<<<"create", "deployment">>, "error">> >>
        /\ \A k \in Kinds : children[o][k] = None
        /\ Stored(o).status = None

\* C38: the status write of reconcile changes the status only: the spec, the
\* generation, the finalizers and the deletion mark of the stored object are
\* after it what they were before it, also when they are no longer those of the
\* snapshot; so when the snapshot was the stored object, observedGeneration
\* equals the stored generation after the write.
C38_StatusWriteTouchesStatusOnly ==
    [][\A o \in Names :
          EngineCall(o, <<"patch", "status">>) =>
              /\ IsSome(store'[o])
              /\ Stored(o)'.spec = Stored(o).spec
              /\ Stored(o)'.generation = Stored(o).generation
              /\ Stored(o)'.finalizers = Stored(o).finalizers
              /\ Stored(o)'.deletionTimestamp = Stored(o).deletionTimestamp
              /\ Stored(o)'.status = Some(new_status(Myapp(o)))
              /\ children' = children
              /\ Myapp(o).generation = Stored(o).generation =>
                    Unwrap(Stored(o)'.status).observedGeneration = Stored(o)'.generation]_vars

\* C38 witness: the status was written while the stored object had moved on
\* from the snapshot: its spec was updated and another controller's token
\* added, and both are still as stored
C38_Witness ==
    \E o \in Names :
        /\ Active(o) /\ Succeeded(o)
        /\ LastCall(o) = <<<<"patch", "status">>, "ok">>
        /\ Stored(o).spec # Myapp(o).spec
        /\ Stored(o).generation = 2 /\ Myapp(o).generation = 1
        /\ Stored(o).finalizers = <<FINALIZER, OtherFinalizer>>
        /\ Unwrap(Stored(o).status).observedGeneration = 1

\* the object under review as the store holds it once it is admitted and the
\* engine has added its finalizer
Admitted == [NewMyApp(Reviewed.metadata.name, Reviewed.spec) EXCEPT
                !.finalizers = <<FINALIZER>>]

\* C33: every object the validating webhook allows passes MyApp::validate, and
\* reconcile called with it as stored does not return ValidationError.
C33_AdmissionImpliesValidate ==
    (Answered("validate") /\ Verdict.allowed) =>
        /\ validate(Reviewed) = "Ok"
        /\ reconcile_entry(Admitted).result.kind # "ValidationError"
        /\ reconcile_entry(Admitted).pc = At("get", "deployment")

\* C33 witness: an object at the upper limit of replicas was allowed, and
\* reconcile called with it goes on to its children
C33_Witness ==
    /\ Answered("validate") /\ Verdict.allowed
    /\ Reviewed.spec.replicas = MaxReplicas
    /\ Reviewed.spec.image = "nginx:1.25"
    /\ reconcile_entry(Admitted).pc = At("get", "deployment")

\* C34: the patch the mutating webhook returns applies to the object it was
\* computed from: every add finds the parent of its target in the object, also
\* when the object has no metadata.labels.
C34_MutatePatchApplies ==
    (Answered("mutate") /\ Verdict.allowed /\ IsSome(Verdict.patch)) =>
        IsSome(JsonPatchApply(Reviewed, Unwrap(Verdict.patch)))

\* C35: when a reconcile has failed and the error policy has given its requeue
\* directive, the error counter has been incremented under the label of the
\* error's kind (kube_error, validation_error, finalizer_error) and the
\* namespace of the object, on every path.
C35_FailureCounted ==
    \A o \in Names :
        Failed(o) =>
            LET label == CASE result[o].kind = "KubeError" -> "kube_error"
                           [] result[o].kind = "ValidationError" -> "validation_error"
                           [] result[o].kind = "FinalizerError" -> "finalizer_error"
            IN /\ Contains(errors[o], record_error(label, Myapp(o).namespace))
               /\ \A i \in 1..Len(errors[o]) : errors[o][i].namespace = Myapp(o).namespace
               /\ directive[o] = Requeue(RequeueError)

\* C35 witness: a cleanup whose delete of the Service failed has returned
\* FinalizerError, counted under finalizer_error in the object's namespace
C35_Witness ==
    \E o \in Names :
        /\ Failed(o) /\ Cleanup(o)
        /\ result[o].kind = "FinalizerError"
        /\ LastCall(o) = <<<<"delete", "service">>, "error">>
        /\ Contains(errors[o], record_error("finalizer_error", Namespace))
        /\ directive[o] = Requeue(RequeueError)

\* C36: every reconcile that has returned, with success or with an error, has
\* incremented the reconcile counter once, with the result it returned, and has
\* left the active-reconciles gauge at the value it found.
C36_ReconcileAccountingBalanced ==
    \A o \in Names :
        /\ Returned(o) =>
              /\ metrics[o].reconcile_total =
                    <<IF result[o].kind = "Ok" THEN "success" ELSE "error">>
              /\ metrics[o].active_reconciles = 0
        /\ (pc[o] # Idle /\ ~Returned(o)) => metrics[o].active_reconciles = 1

\* C37: a failed reconcile and the error policy that follows it increment the
\* error counter once in all, under one label.
C37_FailureCountedOnce ==
    \A o \in Names : Failed(o) => Len(errors[o]) = 1

====
